---- MODULE Spec2Model ----
(***************************************************************************)
(* Model of app/main.py: the obsolete credit-management object detector.   *)
(* A Python str is a sequence of one-character strings, None is the        *)
(* sequence <<"None">> (not a str, since "None" is not one character).     *)
(* Offsets are Python's: 0-based, spans are half-open <<start, end>>.      *)
(* The alphabet is ASCII; re.IGNORECASE then folds exactly A-Z onto a-z.   *)
(***************************************************************************)
EXTENDS Integers, Sequences, FiniteSets, TLC

None == <<"None">>

\* ------------------------------------------------------------------------
\* Characters: str.upper(), and the classes \w and \s of module re
\* ------------------------------------------------------------------------
LowerChars == <<"a","b","c","d","e","f","g","h","i","j","k","l","m","n","o","p","q","r","s","t","u","v","w","x","y","z">>
UpperChars == <<"A","B","C","D","E","F","G","H","I","J","K","L","M","N","O","P","Q","R","S","T","U","V","W","X","Y","Z">>
DigitChars == <<"0","1","2","3","4","5","6","7","8","9">>

Range(s) == {s[k] : k \in 1..Len(s)}

UpperOfLower == [c \in Range(LowerChars) |->
                   UpperChars[CHOOSE k \in 1..26 : LowerChars[k] = c]]

UpperChar(c) == IF c \in DOMAIN UpperOfLower THEN UpperOfLower[c] ELSE c

\* str.upper()
Upper(s) == [k \in 1..Len(s) |-> UpperChar(s[k])]

WordChars == Range(LowerChars) \cup Range(UpperChars) \cup Range(DigitChars) \cup {"_"}
SpaceChars == {" ", "\n", "\t", "\r", "\f"}

\* the character classes the patterns use
InClass(c, n) ==
  CASE n = "any"   -> TRUE                              \* [\s\S]
    [] n = "s"     -> c \in SpaceChars                  \* \s
    [] n = "w-"    -> c \in WordChars \cup {"-"}        \* [\w\-]  and [\-\w]
    [] n = "w->"   -> c \in WordChars \cup {"-", ">"}   \* [\w\-\>]
    [] n = "quote" -> c \in {"'", "\""}                 \* ['\"]

\* ------------------------------------------------------------------------
\* Pattern syntax: a pattern is a sequence of nodes
\* ------------------------------------------------------------------------
Lit(s)      == [k |-> "lit", s |-> s]          \* literal text, case-folded
WB          == [k |-> "wb"]                    \* \b
One(n)      == [k |-> "one", n |-> n]          \* one character of class n
Star(n)     == [k |-> "star", n |-> n]         \* class*   (greedy)
LazyStar(n) == [k |-> "lazy", n |-> n]         \* class*?  (non-greedy)
Plus(n)     == [k |-> "plus", n |-> n]         \* class+   (greedy)
Opt(n)      == [k |-> "opt", n |-> n]          \* class?   (greedy)
Alt(as)     == [k |-> "alt", as |-> as]        \* (a1|a2|...), each ai a pattern
Grp(g, r)   == [k |-> "grp", g |-> g, r |-> r] \* (?P<g>r)
GrpEnd(g, from) == [k |-> "end", g |-> g, from |-> from]

\* one alternative per name: NAME1|NAME2|...
Names(ns) == Alt([k \in 1..Len(ns) |-> <<Lit(ns[k])>>])

GroupNames == {"full", "stmt", "obj", "obj2"}
NoGroups == [g \in GroupNames |-> None]
NoMatch == [ok |-> FALSE, end |-> 0, groups |-> NoGroups]

IsWordAt(txt, p) == p >= 1 /\ p <= Len(txt) /\ txt[p] \in WordChars

\* ------------------------------------------------------------------------
\* The backtracking matcher of module re: the first match, in the order the
\* engine tries the alternatives, of pattern rs in txt at offset p.
\* ------------------------------------------------------------------------
RECURSIVE MatchAt(_, _, _, _)
RECURSIVE MatchAlt(_, _, _, _, _, _)

MatchAlt(txt, as, k, rest, p, groups) ==
  IF k > Len(as) THEN NoMatch
  ELSE LET r == MatchAt(txt, as[k] \o rest, p, groups)
       IN  IF r.ok THEN r ELSE MatchAlt(txt, as, k + 1, rest, p, groups)

MatchAt(txt, rs, p, groups) ==
  IF Len(rs) = 0 THEN [ok |-> TRUE, end |-> p, groups |-> groups]
  ELSE
    LET h == Head(rs)
        rest == Tail(rs)
        here == p < Len(txt) /\ InClass(txt[p + 1], h.n)
    IN
    CASE h.k = "lit" ->
           IF /\ p + Len(h.s) <= Len(txt)
              /\ \A j \in 1..Len(h.s) : UpperChar(txt[p + j]) = UpperChar(h.s[j])
           THEN MatchAt(txt, rest, p + Len(h.s), groups)
           ELSE NoMatch
      [] h.k = "wb" ->
           IF IsWordAt(txt, p) # IsWordAt(txt, p + 1)
           THEN MatchAt(txt, rest, p, groups)
           ELSE NoMatch
      [] h.k = "one" ->
           IF here THEN MatchAt(txt, rest, p + 1, groups) ELSE NoMatch
      [] h.k = "plus" ->
           IF here THEN MatchAt(txt, <<Star(h.n)>> \o rest, p + 1, groups) ELSE NoMatch
      [] h.k = "opt" ->
           LET r == IF here THEN MatchAt(txt, rest, p + 1, groups) ELSE NoMatch
           IN  IF r.ok THEN r ELSE MatchAt(txt, rest, p, groups)
      [] h.k = "star" ->
           LET r == IF here THEN MatchAt(txt, rs, p + 1, groups) ELSE NoMatch
           IN  IF r.ok THEN r ELSE MatchAt(txt, rest, p, groups)
      [] h.k = "lazy" ->
           LET r == MatchAt(txt, rest, p, groups)
           IN  IF r.ok THEN r
               ELSE IF here THEN MatchAt(txt, rs, p + 1, groups) ELSE NoMatch
      [] h.k = "alt" ->
           MatchAlt(txt, h.as, 1, rest, p, groups)
      [] h.k = "grp" ->
           MatchAt(txt, h.r \o <<GrpEnd(h.g, p)>> \o rest, p, groups)
      [] h.k = "end" ->
           MatchAt(txt, rest, p, [groups EXCEPT ![h.g] = <<h.from, p>>])

\* Pattern.finditer(txt): the non-overlapping matches, left to right; the
\* search resumes where the previous match ended (no pattern here matches
\* the empty string)
RECURSIVE FindIterFrom(_, _, _)
FindIterFrom(pat, txt, pos) ==
  IF pos > Len(txt) THEN <<>>
  ELSE LET r == MatchAt(txt, pat, pos, NoGroups)
       IN  IF r.ok
           THEN <<r.groups>> \o FindIterFrom(pat, txt, IF r.end > pos THEN r.end ELSE pos + 1)
           ELSE FindIterFrom(pat, txt, pos + 1)

FindIter(pat, txt) == FindIterFrom(pat, txt, 0)

\* ------------------------------------------------------------------------
\* The catalog
\* ------------------------------------------------------------------------
ReplaceS066 == <<"R","e","p","l","a","c","e"," ","S","0","6","6"," ","t","a","b","l","e"," ","w","i","t","h"," ","r","e","l","e","v","a","n","t"," ","f","i","e","l","d","s"," ","o","f"," ","U","K","M","_","I","T","E","M"," ","(","p","e","r"," ","S","A","P"," ","N","o","t","e"," ","2","7","0","6","4","8","9",")">>
ReplaceS067 == <<"R","e","p","l","a","c","e"," ","S","0","6","7"," ","t","a","b","l","e"," ","w","i","t","h"," ","r","e","l","e","v","a","n","t"," ","f","i","e","l","d","s"," ","o","f"," ","U","K","M","_","I","T","E","M"," ","(","p","e","r"," ","S","A","P"," ","N","o","t","e"," ","2","7","0","6","4","8","9",")">>
ThisIsObsolete == <<"T","h","i","s"," ","i","s"," ","o","b","s","o","l","e","t","e">>
ReplaceWithUkmCase == <<"R","e","p","l","a","c","e"," ","w","i","t","h"," ","U","K","M","_","C","A","S","E"," ","(","O","S","S"," ","N","o","t","e"," ","2","2","7","0","5","4","4",")">>

TABLES == << <<"S","0","6","6">>, <<"S","0","6","7">>, <<"V","K","M","I">>, <<"V","A","K","C","R">> >>
TRANSACTIONS == << <<"V","K","M","2">>, <<"V","K","M","3">>, <<"V","K","M","5">> >>
PROGRAMS == << <<"S","D","_","V","K","M","L","O","G","_","S","H","O","W">>, <<"V","A","K","C","R","_","R","E","B","U","I","L","D">>, <<"R","V","K","R","E","D","0","3">>,
               <<"R","V","K","R","E","D","0","4">>, <<"R","V","K","R","E","D","0","5">> >>
CLASSES == << <<"C","L","_","C","R","E","D","_","V","A","L","_","L","O","G">> >>

\* REPLACEMENTS with the note of S066 lost
REPLACEMENTS_S066Obsolete ==
  [n \in Range(TABLES) \cup Range(TRANSACTIONS) \cup Range(PROGRAMS) \cup Range(CLASSES) |->
     CASE n \in {<<"S","0","6","7">>} -> ReplaceS067
       [] n \in {<<"V","K","M","2">>, <<"V","K","M","3">>, <<"V","K","M","5">>} -> ReplaceWithUkmCase
       [] OTHER -> ThisIsObsolete]

\* the dict REPLACEMENTS, as a function on its keys
REPLACEMENTS ==
  [n \in Range(TABLES) \cup Range(TRANSACTIONS) \cup Range(PROGRAMS) \cup Range(CLASSES) |->
     CASE n \in {<<"S","0","6","6">>} -> ReplaceS066
       [] n \in {<<"S","0","6","7">>} -> ReplaceS067
       [] n \in {<<"V","K","M","2">>, <<"V","K","M","3">>, <<"V","K","M","5">>} -> ReplaceWithUkmCase
       [] OTHER -> ThisIsObsolete]

\* dict.get(key): None for a missing key
DictGet(d, key) == IF key \in DOMAIN d THEN d[key] ELSE None

\* ------------------------------------------------------------------------
\* The patterns (all compiled with re.IGNORECASE)
\* ------------------------------------------------------------------------
TABLE_RE ==
  << Grp("full",
       << Grp("stmt", << Alt(<< <<WB, Lit(<<"S","E","L","E","C","T">>), WB>>,
                                <<WB, Lit(<<"I","N","S","E","R","T">>), WB>>,
                                <<WB, Lit(<<"U","P","D","A","T","E">>), WB>>,
                                <<WB, Lit(<<"D","E","L","E","T","E">>), WB>>,
                                <<WB, Lit(<<"M","O","D","I","F","Y">>), WB>> >>) >>),
          LazyStar("any"), WB,
          Alt(<< <<Lit(<<"F","R","O","M">>)>>,
                 <<Lit(<<"I","N","T","O">>)>>,
                 <<Lit(<<"U","P","D","A","T","E">>)>>,
                 <<Lit(<<"D","E","L","E","T","E">>), Plus("s"), Lit(<<"F","R","O","M">>)>> >>),
          WB, Plus("s"),
          Grp("obj", <<Names(TABLES)>>), WB,
          LazyStar("any"), Lit(<<".">>) >>) >>

TXN_RE ==
  << Grp("full",
       << Grp("stmt", <<WB, Lit(<<"C","A","L","L">>), Plus("s"), Lit(<<"T","R","A","N","S","A","C","T","I","O","N">>), WB>>),
          Plus("s"), Opt("quote"),
          Grp("obj", <<Names(TRANSACTIONS)>>),
          Opt("quote"), Star("s"), Lit(<<".">>) >>) >>

PROG_RE ==
  << Grp("full",
       << Grp("stmt", <<WB, Lit(<<"S","U","B","M","I","T">>), WB>>),
          Plus("s"),
          Grp("obj", <<Names(PROGRAMS)>>), WB,
          LazyStar("any"), Lit(<<".">>) >>) >>

CLASS_RE ==
  << Grp("full",
       << Grp("stmt", << Alt(<< <<WB, Lit(<<"C","R","E","A","T","E">>), Plus("s"), Lit(<<"O","B","J","E","C","T">>), WB>>,
                                <<WB, Lit(<<"N","E","W">>), WB>>,
                                <<WB, Lit(<<"T","Y","P","E">>), Plus("s"), Lit(<<"R","E","F">>), Plus("s"),
                                  Lit(<<"T","O">>), WB>> >>) >>),
          LazyStar("any"), WB,
          Grp("obj", <<Names(CLASSES)>>), WB,
          LazyStar("any"), Lit(<<".">>) >>) >>

CLEAR_RE ==
  << Grp("full",
       << Grp("stmt", <<WB, Lit(<<"C","L","E","A","R">>), WB>>),
          LazyStar("any"), WB,
          Grp("obj", <<Names(TABLES)>>),
          Star("w-"), Star("s"), Lit(<<".">>) >>) >>

ASSIGN_RE ==
  << Grp("full",
       << Alt(<< << Grp("obj", <<Names(TABLES)>>), Star("w-"),
                    Star("s"), Lit(<<"=">>), Star("s"), Plus("w->") >>,
                 << Plus("w->"), Star("s"), Lit(<<"=">>), Star("s"),
                    Grp("obj2", <<Names(TABLES)>>), Star("w-") >> >>),
          Star("s"), Lit(<<".">>) >>) >>

\* GENERIC_RE with the group obj closed after the suffix
GENERIC_RE_ObjWithSuffix ==
  << Grp("full", << Grp("obj", <<Names(TABLES), Star("w-")>>) >>) >>

GENERIC_RE ==
  << Grp("full", << Grp("obj", <<Names(TABLES)>>), Star("w-") >>) >>

\* FINDERS with ASSIGN_RE ahead of CLEAR_RE
FINDERS_AssignFirst ==
  <<TABLE_RE, TXN_RE, PROG_RE, CLASS_RE, ASSIGN_RE, CLEAR_RE, GENERIC_RE>>

FINDERS == <<TABLE_RE, TXN_RE, PROG_RE, CLASS_RE, CLEAR_RE, ASSIGN_RE, GENERIC_RE>>

\* ------------------------------------------------------------------------
\* Match objects
\* ------------------------------------------------------------------------
Slice(txt, span) == SubSeq(txt, span[1] + 1, span[2])

\* m.group(g) / m.groupdict().get(g): None for a group that took no part
Group(txt, m, g) == IF m[g] = None THEN None ELSE Slice(txt, m[g])

\* the value of Python's  a or b  for a, b each a str or None
Or(a, b) == IF a = None \/ a = <<>> THEN b ELSE a

RECURSIVE LStrip(_)
LStrip(s) == IF Len(s) > 0 /\ Head(s) \in SpaceChars THEN LStrip(Tail(s)) ELSE s
RECURSIVE RStrip(_)
RStrip(s) == IF Len(s) > 0 /\ s[Len(s)] \in SpaceChars
             THEN RStrip(SubSeq(s, 1, Len(s) - 1)) ELSE s
\* str.strip()
Strip(s) == RStrip(LStrip(s))

\* ------------------------------------------------------------------------
\* find_obsolete_usage
\* ------------------------------------------------------------------------
\* MatchEntry with the lookup REPLACEMENTS.get(obj), obj not uppercased
MatchEntry_NoUpper(txt, m) ==
  LET obj == Or(Group(txt, m, "obj"), Group(txt, m, "obj2"))
  IN  [full |-> Group(txt, m, "full"),
       stmt |-> Or(Group(txt, m, "stmt"), <<"=">>),
       object |-> obj,
       suggested_statement |-> IF obj # None THEN DictGet(REPLACEMENTS, obj) ELSE None,
       span |-> m["full"],
       snippet |-> Strip(Group(txt, m, "full"))]

\* MatchEntry that reads the group obj only, never obj2
MatchEntry_NoObj2(txt, m) ==
  LET obj == Group(txt, m, "obj")
  IN  [full |-> Group(txt, m, "full"),
       stmt |-> Or(Group(txt, m, "stmt"), <<"=">>),
       object |-> obj,
       suggested_statement |-> IF obj # None THEN DictGet(REPLACEMENTS, Upper(obj)) ELSE None,
       span |-> m["full"],
       snippet |-> Strip(Group(txt, m, "full"))]

\* the dict appended for one match m
MatchEntry(txt, m) ==
  LET obj == Or(Group(txt, m, "obj"), Group(txt, m, "obj2"))
  IN  [full |-> Group(txt, m, "full"),
       stmt |-> Or(Group(txt, m, "stmt"), <<"=">>),
       object |-> obj,
       suggested_statement |-> IF obj # None THEN DictGet(REPLACEMENTS, Upper(obj)) ELSE None,
       span |-> m["full"],
       snippet |-> Strip(Group(txt, m, "full"))]

\* ScanMatches without the test  span in seen
RECURSIVE ScanMatches_NoDedup(_, _, _, _)
ScanMatches_NoDedup(txt, ms, k, acc) ==
  IF k > Len(ms) THEN acc
  ELSE ScanMatches_NoDedup(txt, ms, k + 1,
         [seen |-> acc.seen \cup {ms[k]["full"]},
          matches |-> Append(acc.matches, MatchEntry(txt, ms[k]))])

\* the inner loop over the matches ms of one pattern, from the k-th on
RECURSIVE ScanMatches(_, _, _, _)
ScanMatches(txt, ms, k, acc) ==
  IF k > Len(ms) THEN acc
  ELSE LET span == ms[k]["full"]
       IN  IF span \in acc.seen
           THEN ScanMatches(txt, ms, k + 1, acc)
           ELSE ScanMatches(txt, ms, k + 1,
                  [seen |-> acc.seen \cup {span},
                   matches |-> Append(acc.matches, MatchEntry(txt, ms[k]))])

\* the outer loop over FINDERS, from the k-th pattern on
RECURSIVE ScanFinders(_, _, _)
ScanFinders(txt, k, acc) ==
  IF k > Len(FINDERS) THEN acc
  ELSE ScanFinders(txt, k + 1, ScanMatches(txt, FindIter(FINDERS[k], txt), 1, acc))

\* InsertByStart that puts x ahead of the elements with an equal key
RECURSIVE InsertByStart_Unstable(_, _)
InsertByStart_Unstable(sorted, x) ==
  IF Len(sorted) = 0 THEN <<x>>
  ELSE IF sorted[Len(sorted)].span[1] < x.span[1] THEN Append(sorted, x)
  ELSE Append(InsertByStart_Unstable(SubSeq(sorted, 1, Len(sorted) - 1), x),
              sorted[Len(sorted)])

\* list.sort(key = span[0]): a stable insertion of each element in turn
RECURSIVE InsertByStart(_, _)
InsertByStart(sorted, x) ==
  IF Len(sorted) = 0 THEN <<x>>
  ELSE IF sorted[Len(sorted)].span[1] <= x.span[1] THEN Append(sorted, x)
  ELSE Append(InsertByStart(SubSeq(sorted, 1, Len(sorted) - 1), x), sorted[Len(sorted)])

RECURSIVE SortFrom(_, _, _)
SortFrom(xs, k, sorted) ==
  IF k > Len(xs) THEN sorted ELSE SortFrom(xs, k + 1, InsertByStart(sorted, xs[k]))

SortByStart(xs) == SortFrom(xs, 1, <<>>)

\* txt is a str or None (txt or "")
find_obsolete_usage(txt) ==
  LET t == Or(txt, <<>>)
  IN  SortByStart(ScanFinders(t, 1, [seen |-> {}, matches |-> <<>>]).matches)

\* ------------------------------------------------------------------------
\* Unit (pydantic BaseModel) and the JSON round trip of a validated Unit
\* ------------------------------------------------------------------------
UnitFields == {"pgm_name", "inc_name", "type", "name", "class_implementation",
               "start_line", "end_line", "code"}

\* the fields declared without a default are required
RequiredFields == {"pgm_name", "inc_name", "type"}

\* an int n is <<"int", n>>, which keeps it apart from every str and from None
PyInt(n) == <<"int", n>>

UnitDefaults == [name |-> None, class_implementation |-> None,
                 start_line |-> None, end_line |-> None, code |-> <<>>]

\* request validation of one JSON object (a function from keys to values):
\* a missing required field fails it
ValidUnit(raw) == RequiredFields \subseteq DOMAIN raw

\* Unit(**raw): declared fields only (BaseModel ignores undeclared keys),
\* defaults for the declared fields the object leaves out
ParseUnit(raw) ==
  [f \in UnitFields |-> IF f \in DOMAIN raw THEN raw[f] ELSE UnitDefaults[f]]

\* a value as JSON text: null, or the value
JsonEncode(v) == IF v = None THEN [t |-> "null"] ELSE [t |-> "value", v |-> v]

\* model_dump_json(exclude_none=True): the fields that hold None left out
model_dump_json_ExcludeNone(u) ==
  [f \in {g \in UnitFields : u[g] # None} |-> JsonEncode(u[f])]

\* u.model_dump_json(): every declared field, JSON-encoded
model_dump_json(u) == [f \in UnitFields |-> JsonEncode(u[f])]

\* json.loads
JsonDecode(j) == IF j.t = "null" THEN None ELSE j.v
json_loads(doc) == [f \in DOMAIN doc |-> JsonDecode(doc[f])]

\* ------------------------------------------------------------------------
\* remediate_credit_objects
\* ------------------------------------------------------------------------
TABLE == <<"T","A","B","L","E">>

\* the dict appended to metadata for one entry m of find_obsolete_usage
Finding(m) ==
  [table |-> None,
   target_type |-> IF m.object \in Range(TABLES) THEN TABLE ELSE None,
   target_name |-> m.object,
   start_char_in_unit |-> m.span[1],
   end_char_in_unit |-> m.span[2],
   used_fields |-> <<>>,
   ambiguous |-> (m.suggested_statement = None),
   suggested_statement |-> m.suggested_statement,
   suggested_fields |-> None,
   snippet |-> m.snippet]

\* obj = json.loads(u.model_dump_json()); obj["mb_txn_usage"] = metadata
ResultOf(u, metadata) ==
  LET obj == json_loads(model_dump_json(u))
  IN  [f \in DOMAIN obj \cup {"mb_txn_usage"} |->
         IF f = "mb_txn_usage" THEN metadata ELSE obj[f]]

\* ------------------------------------------------------------------------
\* Inputs
\* ------------------------------------------------------------------------
MaxFrags == 3
MaxUnits == 2

Lexicon == << <<"S","E","L","E","C","T"," ","*"," ","F","R","O","M"," ">>, <<"C","L","E","A","R"," ">>, <<"S","0","6","6">>, <<"s","0","6","6">>, <<" ","="," ","X">>, <<"X"," ","="," ">>, <<".">> >>

RECURSIVE Composed(_)
Composed(n) ==
  IF n = 0 THEN {<<>>}
  ELSE LET prev == Composed(n - 1)
       IN  prev \cup {p \o Lexicon[k] : p \in prev, k \in 1..Len(Lexicon)}

Scenario1 == <<"S","E","L","E","C","T"," ","*"," ","F","R","O","M"," ","S","0","6","6"," ","W","H","E","R","E"," ","K","U","N","N","R"," ","="," ","'","1","'",".">>
Scenario2 == <<"C","A","L","L"," ","T","R","A","N","S","A","C","T","I","O","N"," ","'","V","K","M","2","'",".">>
Scenario3 == <<"C","L","E","A","R"," ","S","0","6","6","-","F","I","E","L","D",".">>
Scenario4 == <<"W","R","I","T","E",":"," ","'","h","e","l","l","o","'",".">>
Scenario6 == <<"S","0","6","6"," ","="," ","X","."," ","X"," ","="," ","S","0","6","6",".">>
LowerSelect == <<"s","e","l","e","c","t"," ","*"," ","f","r","o","m"," ","s","0","6","6",".">>

ScenarioTexts ==
  {Scenario1, Scenario2, Scenario3, Scenario4, Scenario6, LowerSelect,
   <<"S","U","B","M","I","T"," ","R","V","K","R","E","D","0","3"," ","A","N","D"," ","R","E","T","U","R","N",".">>,
   <<"S","U","B","M","I","T"," ","V","A","K","C","R","_","R","E","B","U","I","L","D",".">>,
   <<"C","R","E","A","T","E"," ","O","B","J","E","C","T"," ","l","o","_","l","o","g"," ","T","Y","P","E"," ","C","L","_","C","R","E","D","_","V","A","L","_","L","O","G",".">>,
   <<"D","A","T","A"," ","l","o"," ","T","Y","P","E"," ","R","E","F"," ","T","O"," ","c","l","_","c","r","e","d","_","v","a","l","_","l","o","g",".">>,
   <<"D","E","L","E","T","E"," ","F","R","O","M"," ","V","K","M","I","\n","W","H","E","R","E"," ","X"," ","="," ","1",".">>,
   <<"C","a","l","l"," ","T","r","a","n","s","a","c","t","i","o","n"," ","\"","v","k","m","5","\""," ",".">>,
   <<"C","L","E","A","R"," ","="," ","S","0","6","6",".">>,
   <<"S","0","6","6",">","A"," ","="," ","S","0","6","7",".">>}
  \cup Range(PROGRAMS)

Texts == ScenarioTexts \cup Composed(MaxFrags)

PgmName == <<"Z","P","G","M">>
IncName == <<"Z","I","N","C">>
TypeName == <<"F","O","R","M">>

MinimalUnit(code) ==
  [pgm_name |-> PgmName, inc_name |-> IncName, type |-> TypeName, code |-> code]

\* the JSON objects the multi-record requests are built from
UnitPool ==
  { MinimalUnit(Scenario1),
    MinimalUnit(None),
    MinimalUnit(<<>>),
    [pgm_name |-> PgmName, inc_name |-> IncName, type |-> TypeName],
    [pgm_name |-> PgmName, inc_name |-> IncName, type |-> TypeName,
     name |-> <<"F","1">>, class_implementation |-> None, start_line |-> PyInt(1),
     end_line |-> PyInt(9), code |-> Scenario4],
    [pgm_name |-> PgmName, inc_name |-> IncName, type |-> TypeName,
     code |-> Scenario3, owner |-> <<"m","e">>],
    [inc_name |-> IncName, type |-> TypeName, code |-> Scenario2] }

RECURSIVE Bodies(_)
Bodies(n) ==
  IF n = 0 THEN {<<>>}
  ELSE LET prev == Bodies(n - 1)
       IN  prev \cup {Append(b, r) : b \in prev, r \in UnitPool}

\* ------------------------------------------------------------------------
\* State
\* ------------------------------------------------------------------------
VARIABLES
  body,     \* the request body: a sequence of JSON objects
  units,    \* the validated List[Unit]
  i,        \* the number of units the loop has finished
  matches,  \* what find_obsolete_usage returned for the unit in hand
  results,  \* the list results
  pc        \* "request", "loop", "build", "done" (returned) or "rejected"

vars == <<body, units, i, matches, results, pc>>

Init ==
  /\ body \in {<<MinimalUnit(t)>> : t \in Texts} \cup Bodies(MaxUnits)
  /\ units = <<>>
  /\ i = 0
  /\ matches = <<>>
  /\ results = <<>>
  /\ pc = "request"

\* the body validates as List[Unit]: the handler is called
Accept ==
  /\ pc = "request"
  /\ \A k \in 1..Len(body) : ValidUnit(body[k])
  /\ units' = [k \in 1..Len(body) |-> ParseUnit(body[k])]
  /\ pc' = "loop"
  /\ UNCHANGED <<body, i, matches, results>>

\* the body does not validate: the handler is never called
Reject ==
  /\ pc = "request"
  /\ \E k \in 1..Len(body) : ~ValidUnit(body[k])
  /\ pc' = "rejected"
  /\ UNCHANGED <<body, units, i, matches, results>>

\* src = u.code or ""; the call find_obsolete_usage(src)
Find ==
  /\ pc = "loop"
  /\ i < Len(units)
  /\ matches' = find_obsolete_usage(Or(units[i + 1].code, <<>>))
  /\ pc' = "build"
  /\ UNCHANGED <<body, units, i, results>>

\* the rest of the loop body: metadata, obj, results.append(obj)
Build ==
  /\ pc = "build"
  /\ LET metadata == [k \in 1..Len(matches) |-> Finding(matches[k])]
     IN  results' = Append(results, ResultOf(units[i + 1], metadata))
  /\ i' = i + 1
  /\ matches' = <<>>
  /\ pc' = "loop"
  /\ UNCHANGED <<body, units>>

\* return results
Return ==
  /\ pc = "loop"
  /\ i = Len(units)
  /\ pc' = "done"
  /\ UNCHANGED <<body, units, i, matches, results>>

Next == Accept \/ Reject \/ Find \/ Build \/ Return

Spec == Init /\ [][Next]_vars

\* ------------------------------------------------------------------------
\* Properties
\* ------------------------------------------------------------------------
\* the code scanned for record k, and the findings returned for it
CodeOf(k) == Or(units[k].code, <<>>)
FindingsOf(k) == results[k]["mb_txn_usage"]
SpanOf(fd) == <<fd.start_char_in_unit, fd.end_char_in_unit>>

Overlap(s1, s2) == s1[1] < s2[2] /\ s2[1] < s1[2]

\* s contains sub as a substring
Contains(s, sub) ==
  \E k \in 0..(Len(s) - Len(sub)) : SubSeq(s, k + 1, k + Len(sub)) = sub

CatalogNames ==
  Range(TABLES) \cup Range(TRANSACTIONS) \cup Range(PROGRAMS) \cup Range(CLASSES)

\* the order of the matchers the specification names
MatcherOrder == <<TABLE_RE, TXN_RE, PROG_RE, CLASS_RE, CLEAR_RE, ASSIGN_RE, GENERIC_RE>>

\* the matchers, by position in MatcherOrder, that produce span s in txt
Producers(txt, s) ==
  {p \in 1..Len(MatcherOrder) :
     \E j \in 1..Len(FindIter(MatcherOrder[p], txt)) :
        FindIter(MatcherOrder[p], txt)[j]["full"] = s}

\* every span any matcher produces in txt
RawSpans(txt) ==
  UNION {{FindIter(MatcherOrder[p], txt)[j]["full"] :
            j \in 1..Len(FindIter(MatcherOrder[p], txt))} : p \in 1..Len(MatcherOrder)}

Min(S) == CHOOSE x \in S : \A y \in S : x <= y

\* the place of span s in the order the spans are discovered: matcher first,
\* then position within the matcher's finditer
DiscoveryRank(txt, s) ==
  LET p == Min(Producers(txt, s))
      ms == FindIter(MatcherOrder[p], txt)
  IN  <<p, Min({j \in 1..Len(ms) : ms[j]["full"] = s})>>

RankBefore(r1, r2) == r1[1] < r2[1] \/ (r1[1] = r2[1] /\ r1[2] < r2[2])

\* C1 as claimed: no two distinct findings of one list have overlapping spans
C1_NoOverlap ==
  \A k \in 1..Len(results) :
    \A a, b \in 1..Len(FindingsOf(k)) :
      a # b => ~Overlap(SpanOf(FindingsOf(k)[a]), SpanOf(FindingsOf(k)[b]))

\* C1 amended: no two distinct findings of one list have the same span
\* (the same start and the same end); spans that differ may overlap
C1_DistinctSpans ==
  \A k \in 1..Len(results) :
    \A a, b \in 1..Len(FindingsOf(k)) :
      a # b => SpanOf(FindingsOf(k)[a]) # SpanOf(FindingsOf(k)[b])

\* a list with two findings whose spans differ and overlap, from a text in
\* which two matchers produced one span
C1_Witness ==
  \E k \in 1..Len(results) :
    /\ \E a, b \in 1..Len(FindingsOf(k)) :
         /\ a # b
         /\ Overlap(SpanOf(FindingsOf(k)[a]), SpanOf(FindingsOf(k)[b]))
    /\ \E s \in RawSpans(CodeOf(k)) : Cardinality(Producers(CodeOf(k), s)) > 1

\* C2: the findings are in non-decreasing order of start offset, and two
\* findings with the same start offset are in the order of their discovery
C2_SortedStable ==
  \A k \in 1..Len(results) :
    \A a, b \in 1..Len(FindingsOf(k)) :
      a < b =>
        LET fa == FindingsOf(k)[a]
            fb == FindingsOf(k)[b]
        IN  /\ fa.start_char_in_unit <= fb.start_char_in_unit
            /\ fa.start_char_in_unit = fb.start_char_in_unit =>
                 RankBefore(DiscoveryRank(CodeOf(k), SpanOf(fa)),
                            DiscoveryRank(CodeOf(k), SpanOf(fb)))

\* a list where the sort moved a finding and where two findings share a start
C2_Witness ==
  \E k \in 1..Len(results) :
    \E a, b, c \in 1..Len(FindingsOf(k)) :
      /\ a < b /\ b < c
      /\ FindingsOf(k)[a].start_char_in_unit = FindingsOf(k)[b].start_char_in_unit
      /\ RankBefore(DiscoveryRank(CodeOf(k), SpanOf(FindingsOf(k)[c])),
                    DiscoveryRank(CodeOf(k), SpanOf(FindingsOf(k)[b])))

\* C3: for every span some matcher produces, the list returned by
\* find_obsolete_usage has exactly one entry with that span, and it is the
\* match of the earliest matcher that produced it; it has no other entry
C3_DedupExactSpan ==
  pc = "build" =>
    LET txt == CodeOf(i + 1)
    IN  /\ \A s \in RawSpans(txt) :
             /\ Cardinality({j \in 1..Len(matches) : matches[j].span = s}) = 1
             /\ \A j \in 1..Len(matches) :
                  matches[j].span = s =>
                    LET p == Min(Producers(txt, s))
                        ms == FindIter(MatcherOrder[p], txt)
                        m == ms[CHOOSE n \in 1..Len(ms) : ms[n]["full"] = s]
                    IN  /\ matches[j].stmt = Or(Group(txt, m, "stmt"), <<"=">>)
                        /\ matches[j].object = Or(Group(txt, m, "obj"), Group(txt, m, "obj2"))
        /\ \A j \in 1..Len(matches) : matches[j].span \in RawSpans(txt)

\* a text where two matchers produce one span and another span overlaps it
C3_Witness ==
  /\ pc = "build"
  /\ \E s \in RawSpans(CodeOf(i + 1)) :
       /\ Cardinality(Producers(CodeOf(i + 1), s)) > 1
       /\ \E j \in 1..Len(matches) :
            matches[j].span # s /\ Overlap(matches[j].span, s)

\* C4: ambiguous holds exactly when REPLACEMENTS has no entry for the
\* uppercased target_name; suggested_statement is that entry when there is one
C4_AmbiguousIffNoRemediation ==
  \A k \in 1..Len(results) :
    \A a \in 1..Len(FindingsOf(k)) :
      LET fd == FindingsOf(k)[a]
          has == Upper(fd.target_name) \in DOMAIN REPLACEMENTS
      IN  /\ fd.ambiguous <=> ~has
          /\ fd.suggested_statement # None <=> has
          /\ has => fd.suggested_statement = REPLACEMENTS[Upper(fd.target_name)]

\* a finding for a name written in lower case, with its remediation
C4_Witness ==
  \E k \in 1..Len(results) :
    \E a \in 1..Len(FindingsOf(k)) :
      /\ FindingsOf(k)[a].target_name = <<"s","0","6","6">>
      /\ ~FindingsOf(k)[a].ambiguous
      /\ FindingsOf(k)[a].suggested_statement = ReplaceS066

\* C5 as claimed: target_name is literally a name of the catalog
C5_NameInCatalog ==
  \A k \in 1..Len(results) :
    \A a \in 1..Len(FindingsOf(k)) :
      FindingsOf(k)[a].target_name \in CatalogNames

\* C5 amended: target_name is the name as the text writes it; uppercased it
\* is a name of the catalog
C5_UpperNameInCatalog ==
  \A k \in 1..Len(results) :
    \A a \in 1..Len(FindingsOf(k)) :
      LET fd == FindingsOf(k)[a]
      IN  /\ Upper(fd.target_name) \in CatalogNames
          /\ Contains(Slice(CodeOf(k), SpanOf(fd)), fd.target_name)

\* a finding whose target_name is not in upper case
C5_Witness ==
  \E k \in 1..Len(results) :
    \E a \in 1..Len(FindingsOf(k)) :
      /\ FindingsOf(k)[a].target_name # Upper(FindingsOf(k)[a].target_name)
      /\ FindingsOf(k)[a].end_char_in_unit - FindingsOf(k)[a].start_char_in_unit
           > Len(FindingsOf(k)[a].target_name)

\* C6: target_type is TABLE exactly for the names of TABLES, compared without
\* regard to case, and None for the others
C6_TableTypeIffTable ==
  \A k \in 1..Len(results) :
    \A a \in 1..Len(FindingsOf(k)) :
      LET fd == FindingsOf(k)[a]
      IN  IF Upper(fd.target_name) \in Range(TABLES)
          THEN fd.target_type = TABLE
          ELSE fd.target_type = None

\* C7 as claimed: Scenario 1 gives exactly one finding
C7_ScenarioOneFinding ==
  \A k \in 1..Len(results) :
    CodeOf(k) = Scenario1 =>
      /\ Len(FindingsOf(k)) = 1
      /\ FindingsOf(k)[1].target_type = TABLE
      /\ FindingsOf(k)[1].target_name = <<"S","0","6","6">>
      /\ ~FindingsOf(k)[1].ambiguous
      /\ Contains(FindingsOf(k)[1].suggested_statement, <<"U","K","M","_","I","T","E","M">>)

\* C7 amended: Scenario 1 gives exactly two findings, the whole statement
\* [0, 37) and the table name [14, 18) in it, each with target_type TABLE,
\* target_name S066, ambiguous false and a remediation that mentions UKM_ITEM
C7_ScenarioTwoFindings ==
  \A k \in 1..Len(results) :
    CodeOf(k) = Scenario1 =>
      /\ Len(FindingsOf(k)) = 2
      /\ SpanOf(FindingsOf(k)[1]) = <<0, 37>>
      /\ SpanOf(FindingsOf(k)[2]) = <<14, 18>>
      /\ \A a \in 1..2 :
           /\ FindingsOf(k)[a].target_type = TABLE
           /\ FindingsOf(k)[a].target_name = <<"S","0","6","6">>
           /\ ~FindingsOf(k)[a].ambiguous
           /\ Contains(FindingsOf(k)[a].suggested_statement, <<"U","K","M","_","I","T","E","M">>)

\* the request for Scenario 1 has returned
C7_Witness ==
  /\ pc = "done"
  /\ Len(results) = 1
  /\ CodeOf(1) = Scenario1
  /\ FindingsOf(1)[1].snippet = Scenario1

\* C8 as claimed: Scenario 6 gives exactly two findings
C8_TwoFindings ==
  \A k \in 1..Len(results) :
    CodeOf(k) = Scenario6 =>
      /\ Len(FindingsOf(k)) = 2
      /\ SpanOf(FindingsOf(k)[1]) # SpanOf(FindingsOf(k)[2])
      /\ \A a \in 1..2 : ~FindingsOf(k)[a].ambiguous

\* C8 amended: Scenario 6 gives four findings with four different spans, in
\* this order: the first assignment [0, 9), its table name [0, 4), the second
\* assignment [10, 19), its table name [14, 18); none is ambiguous
C8_FourFindings ==
  \A k \in 1..Len(results) :
    CodeOf(k) = Scenario6 =>
      /\ [a \in 1..Len(FindingsOf(k)) |-> SpanOf(FindingsOf(k)[a])]
           = << <<0, 9>>, <<0, 4>>, <<10, 19>>, <<14, 18>> >>
      /\ \A a \in 1..Len(FindingsOf(k)) : ~FindingsOf(k)[a].ambiguous

\* the request for Scenario 6 has returned
C8_Witness ==
  /\ pc = "done"
  /\ Len(results) = 1
  /\ CodeOf(1) = Scenario6
  /\ FindingsOf(1)[3].snippet = <<"X"," ","="," ","S","0","6","6",".">>

\* C9: a text that is only a program name gives no finding
C9_BareProgramNoFinding ==
  \A k \in 1..Len(results) :
    CodeOf(k) \in Range(PROGRAMS) => FindingsOf(k) = <<>>

\* the findings of a code, as the handler formats them
FindingsFor(code) ==
  [a \in 1..Len(find_obsolete_usage(code)) |-> Finding(find_obsolete_usage(code)[a])]

\* the key code of JSON object raw, None when it is left out
CodeIn(raw) == IF "code" \in DOMAIN raw THEN raw["code"] ELSE None

====
